---- MODULE Spec2Model ----
(***************************************************************************)
(* FormBridge Python SDK: the request execution and retry engine           *)
(* (FormBridgeClient._request, sdk/python/src/formbridge/client.py).       *)
(*                                                                         *)
(* One client (max_retries fixed at construction), the module-level        *)
(* backoff list, and one coroutine frame per logical call.  A frame moves  *)
(* between the engine's two suspension points: awaiting the HTTP attempt   *)
(* in flight and sleeping a backoff.  Durations are in milliseconds.       *)
(***************************************************************************)
EXTENDS Integers, Sequences, FiniteSets, TLC

VARIABLES
    max_retries,      \* FormBridgeClient._max_retries
    RETRY_BACKOFFS,   \* module global _RETRY_BACKOFFS
    frame,            \* call id -> locals and observable effects of one _request
    client,           \* FormBridgeClient: credential, headers, the httpx session
    server,           \* which responses the server answers with: "any" or "few"
    adapter,          \* FormBridgeClientSync._run: the blocking call in progress
    create            \* create_submission: arguments, engine result, return value

vars == <<max_retries, RETRY_BACKOFFS, frame, client, server, adapter, create>>

----------------------------------------------------------------------------
(* Bounds of the model *)

\* max_retries ranges over -NegRetries .. MaxRetries (the constructor
\* does not validate it)
NegRetries == 2
MaxRetries == 4
\* longest list a test may bind _RETRY_BACKOFFS to
MaxOverrideLen == 2
\* calls of the blocking adapter, and calls of close, in one behaviour
MaxSyncCalls == 3
MaxCloses == 3
\* largest max_retries of the clients that run two calls at once
ConcRetries == 1

----------------------------------------------------------------------------
(* Values *)

\* Optional[T]: None, or a one-element tuple
None == <<>>
Some(x) == <<x>>

\* _RETRY_BACKOFFS = [0.5, 1.0, 2.0]
DEFAULT_RETRY_BACKOFFS == <<500, 1000, 2000>>

\* the duration the tests bind the list to: [0.01, 0.01, 0.01]
OverrideDuration == 10

\* _RETRYABLE_STATUS = {429, 500, 502, 503, 504}
RETRYABLE_STATUS == {429, 500, 502, 503, 504}

\* Status codes a server (or a proxy in front of it) answers with
Statuses == {200, 302, 401, 403} \cup RETRYABLE_STATUS

\* Shapes of a response body, by what resp.json() makes of it
Bodies == {"NotJson", "Array", "Scalar", "ObjNoError", "ObjErrorFull",
           "ObjErrorEmpty", "ObjErrorNotObj"}

Responses == [status : Statuses, body : Bodies]

\* the answers considered when several calls are in flight at once
FewResponses ==
    {[status |-> 200, body |-> "ObjNoError"],
     [status |-> 401, body |-> "ObjErrorFull"],
     [status |-> 502, body |-> "NotJson"]}

Answers == IF server = "any" THEN Responses ELSE FewResponses

\* Exceptions of the transport the retry clause names, and their subclasses
RetriedExceptions == {"ConnectError", "ConnectTimeout", "ReadTimeout"}

\* Other exceptions http.request can raise: transport errors the clause
\* does not name, and the RuntimeError of a client that was closed
OtherExceptions == {"ReadError", "ClientClosed"}

\* lists a caller may bind _RETRY_BACKOFFS to
BackoffLists ==
    {DEFAULT_RETRY_BACKOFFS} \cup
    {[i \in 1..n |-> OverrideDuration] : n \in 0..MaxOverrideLen}

Min(a, b) == IF a < b THEN a ELSE b
Max(a, b) == IF a > b THEN a ELSE b

\* Python's s[:n]: the first n entries, or all but the last -n when n < 0
PySlice(s, n) ==
    IF n >= 0 THEN SubSeq(s, 1, Min(n, Len(s)))
    ELSE SubSeq(s, 1, Max(Len(s) + n, 0))

----------------------------------------------------------------------------
(* The client *)

\* a str (or None) is true in a condition
Truthy(opt) == opt # None /\ opt[1] # ""

\* self._api_key = api_key or os.environ.get("FORMBRIDGE_API_KEY", "")
ResolveApiKey(api_key, env_key) ==
    IF Truthy(api_key) THEN api_key[1]
    ELSE IF env_key # None THEN env_key[1] ELSE ""

\* DefaultHeaders without the test of the key
DefaultHeaders_Always(key) ==
    [ContentType |-> Some("application/json"),
     Authorization |-> Some(<<"Bearer", key>>)]

\* headers = {"Content-Type": ...}; if self._api_key: headers["Authorization"] = ...
DefaultHeaders(key) ==
    [ContentType |-> Some("application/json"),
     Authorization |-> IF key # "" THEN Some(<<"Bearer", key>>) ELSE None]

\* FormBridgeClient(api_key=...) with FORMBRIDGE_API_KEY = env_key
NewClient(api_key, env_key) ==
    [api_key_arg |-> api_key,
     env_key     |-> env_key,
     api_key     |-> ResolveApiKey(api_key, env_key),
     headers     |-> DefaultHeaders(ResolveApiKey(api_key, env_key)),
     http        |-> "open",   \* httpx.AsyncClient: open or closed
     releases    |-> 0,        \* times the session's transport was released
     closes      |-> <<>>]     \* the calls of close(), by calling convention

\* max_retries: int = 3
DefaultMaxRetries == 3

\* values of the api_key argument and of FORMBRIDGE_API_KEY
ApiKeyArgs == {None, Some(""), Some("test-key")}
EnvKeys == {None, Some(""), Some("env-key")}

----------------------------------------------------------------------------
(* Submission.from_response and create_submission *)

\* d.get(key, default) for a key that is absent (None) or present
Get(opt, default) == IF opt = None THEN default ELSE opt[1]

\* the metadata member: absent, a dict (with or without the timestamps),
\* or something that is no dict
Metadatas ==
    {None,
     Some([dict |-> TRUE, createdAt |-> Some("2026-01-01"), updatedAt |-> None]),
     Some([dict |-> FALSE, createdAt |-> None, updatedAt |-> None])}

\* success bodies of the create endpoint, by the members they carry
CreateBodies ==
    [submissionId  : {None, Some("sub_123")},
     intakeId      : {None, Some(""), Some("server-intake")},
     state         : {Some("draft")},
     resumeToken   : {None, Some("tok_abc")},
     fields        : {None, Some("{company}")},
     missingFields : {None, Some("[email]")},
     schema        : {None},
     metadata      : Metadatas,
     createdAt     : {None, Some("2025-12-31")},
     updatedAt     : {None}]

\* isinstance(data.get("metadata"), dict)
MetadataIsDict(data) == data.metadata # None /\ data.metadata[1].dict

\* Submission.from_response(data)
FromResponse(data) ==
    [submission_id  |-> Get(data.submissionId, ""),
     intake_id      |-> Get(data.intakeId, ""),
     state          |-> Get(data.state, ""),
     resume_token   |-> data.resumeToken,
     fields         |-> Get(data.fields, "{}"),
     missing_fields |-> data.missingFields,
     schema         |-> data.schema,
     created_at     |-> IF MetadataIsDict(data) THEN data.metadata[1].createdAt
                        ELSE data.createdAt,
     updated_at     |-> IF MetadataIsDict(data) THEN data.metadata[1].updatedAt
                        ELSE data.updatedAt,
     raw            |-> data]

\* BackFill rebuilding the Submission without its missing_fields
BackFill_DropsMissingFields(sub, intake_id) ==
    IF sub.intake_id = ""
    THEN [sub EXCEPT !.intake_id = intake_id, !.missing_fields = None]
    ELSE sub

\* if not sub.intake_id: sub = Submission(..., intake_id=intake_id, ...)
BackFill(sub, intake_id) ==
    IF sub.intake_id = ""
    THEN [submission_id  |-> sub.submission_id,
          intake_id      |-> intake_id,
          state          |-> sub.state,
          resume_token   |-> sub.resume_token,
          fields         |-> sub.fields,
          missing_fields |-> sub.missing_fields,
          schema         |-> sub.schema,
          created_at     |-> sub.created_at,
          updated_at     |-> sub.updated_at,
          raw            |-> sub.raw]
    ELSE sub

\* create_submission before it is called
IdleCreate == [pc |-> "idle"]

----------------------------------------------------------------------------
(* FormBridgeError and the decoded body *)

FormBridgeError(message, status_code, error_type, is_connectivity_error, response_data) ==
    [cls |-> "FormBridgeError", message |-> message,
     status_code |-> status_code, error_type |-> error_type,
     is_connectivity_error |-> is_connectivity_error,
     response_data |-> response_data]

RuntimeError(message) ==
    [cls |-> "RuntimeError", message |-> message,
     status_code |-> None, error_type |-> None,
     is_connectivity_error |-> FALSE, response_data |-> None]

\* resp.json() raises on a body that is not JSON
JsonDecodes(body) == body # "NotJson"

\* isinstance(data, dict)
IsDict(body) == body \in {"ObjNoError", "ObjErrorFull", "ObjErrorEmpty",
                          "ObjErrorNotObj"}

\* error_info = data.get("error", {}) if isinstance(data, dict) else {}
\* "dict" when error_info is a dict, and then the keys it has
ErrorInfo(body) ==
    IF ~IsDict(body) THEN [dict |-> TRUE, keys |-> {}]
    ELSE CASE body = "ObjErrorFull"   -> [dict |-> TRUE, keys |-> {"type", "message"}]
           [] body = "ObjErrorEmpty"  -> [dict |-> TRUE, keys |-> {}]
           [] body = "ObjErrorNotObj" -> [dict |-> FALSE, keys |-> {}]
           [] OTHER                   -> [dict |-> TRUE, keys |-> {}]

\* error_info.get("message", f"HTTP {resp.status_code}")
ErrorMessage(resp) ==
    IF "message" \in ErrorInfo(resp.body).keys
    THEN <<"error.message">>
    ELSE <<"HTTP", resp.status>>

\* error_info.get("type")
ErrorType(resp) ==
    IF "type" \in ErrorInfo(resp.body).keys THEN Some("error.type") ELSE None

----------------------------------------------------------------------------
(* FormBridgeClientSync._run *)

IdleAdapter ==
    [pc      |-> "idle",
     ctx     |-> "none",   \* "plain": no running loop; "in_loop": called from one
     op      |-> "none",   \* the coroutine passed: "request" or "close"
     caller_loop |-> "none",   \* the loop get_running_loop() found
     loop    |-> "none",   \* the event loop asyncio.run makes for the call
     worker  |-> "none",   \* the thread of the ThreadPoolExecutor
     spawned |-> 0,        \* worker threads started for the call
     future  |-> [kind |-> "none"],   \* what the coroutine ended with
     outcome |-> [kind |-> "none"],   \* what _run returned or raised
     calls   |-> 0]        \* calls of _run so far

\* pool.submit(...): the executor starts its one worker thread
Submit(ad) == [ad EXCEPT !.worker = "alive", !.spawned = @ + 1]

\* _run(coro) up to asyncio.run: the running loop is looked up, and found
\* running, the call is handed to a worker thread
Run(ad, ctx, op) ==
    LET a == [IdleAdapter EXCEPT !.pc = "asyncio_run", !.ctx = ctx, !.op = op,
                                 !.caller_loop = IF ctx = "in_loop" THEN "running"
                                                 ELSE "none",
                                 !.calls = ad.calls + 1]
    IN  IF a.caller_loop = "running" THEN Submit(a) ELSE a

\* asyncio.run: a new event loop is made and runs the coroutine
NewLoop(ad) == [ad EXCEPT !.loop = "running", !.pc = "running"]

\* CloseLoop with run_until_complete alone: the loop is never closed
CloseLoop_LeftRunning(ad, result) ==
    [ad EXCEPT !.future = result, !.pc = "finished"]

\* asyncio.run: the coroutine has ended, the loop is closed
CloseLoop(ad, result) ==
    [ad EXCEPT !.loop = "closed", !.future = result, !.pc = "finished"]

\* Result returning pool.submit(...) itself, not its .result()
Result_Future(ad) ==
    [ad EXCEPT !.outcome = IF ad.worker = "alive" THEN [kind |-> "future"]
                           ELSE ad.future,
               !.worker = IF @ = "alive" THEN "joined" ELSE @,
               !.pc = "returned"]

\* return asyncio.run(coro), or return ....result() and the end of the
\* `with` block, which joins the worker
Result(ad) ==
    [ad EXCEPT !.outcome = ad.future,
               !.worker = IF @ = "alive" THEN "joined" ELSE @,
               !.pc = "returned"]

\* Aclose releasing the transport whatever the state of the session
Aclose_Unguarded(cl) == [cl EXCEPT !.http = "closed", !.releases = @ + 1]

\* await self._http.aclose(): an open session is closed and its transport
\* released; a closed one is left as it is
Aclose(cl) ==
    IF cl.http = "open" THEN [cl EXCEPT !.http = "closed", !.releases = @ + 1]
    ELSE cl

\* FormBridgeClient.close, called through the convention conv
Close(cl, conv) == [Aclose(cl) EXCEPT !.closes = Append(@, conv)]

\* what the coroutine close() ends with
CloseResult == [kind |-> "return", data |-> "None"]

----------------------------------------------------------------------------
(* One frame of _request *)

NoResult == [kind |-> "none"]

IdleFrame ==
    [pc        |-> "idle",
     seen      |-> <<>>,    \* _RETRY_BACKOFFS as bound when the call started
     backoffs  |-> <<>>,
     attempt   |-> 0,
     last_exc  |-> None,
     resp      |-> None,
     attempts  |-> 0,       \* calls of self._http.request made
     sent      |-> <<>>,    \* Authorization header of each request made
     decoded   |-> 0,       \* calls of resp.json() made
     last      |-> None,    \* outcome of the latest completed attempt
     sleeps    |-> <<>>,    \* durations passed to asyncio.sleep, in order
     warnings  |-> <<>>,    \* logger.warning events, in order
     history   |-> <<>>,    \* class of each completed attempt, in order
     terminals |-> 0,       \* returns and raises that left the coroutine
     result    |-> NoResult]

\* a return or raise leaves the coroutine
Return(f, data) ==
    [f EXCEPT !.pc = "done", !.terminals = @ + 1,
              !.result = [kind |-> "return", data |-> data]]

\* Raise, but the error is only reported and the frame keeps running
Raise_KeepsRunning(f, exc) ==
    [f EXCEPT !.terminals = @ + 1,
              !.result = [kind |-> "raise", exc |-> exc]]

Raise(f, exc) ==
    [f EXCEPT !.pc = "done", !.terminals = @ + 1,
              !.result = [kind |-> "raise", exc |-> exc]]

\* after the for loop: "Should not reach here"
AfterLoop(f) ==
    IF f.last_exc # None
    THEN Raise(f, FormBridgeError(<<"Connection failed after retries", f.last_exc[1]>>,
                                  None, None, TRUE, None))
    ELSE Raise(f, RuntimeError(<<"Retry loop exhausted unexpectedly">>))

\* head of `for attempt in range(1 + len(backoffs))` for index a, and the
\* self._http.request call that opens the iteration
Iterate(f, a) ==
    IF a < 1 + Len(f.backoffs)
    THEN [f EXCEPT !.attempt = a, !.attempts = @ + 1, !.pc = "await_http",
                   !.sent = Append(@, client.headers.Authorization)]
    ELSE AfterLoop(f)

\* WarnAndSleep with the sleep started but not awaited: the loop goes on
WarnAndSleep_NotAwaited(f, kind) ==
    Iterate([f EXCEPT !.warnings = Append(@, [kind |-> kind,
                                              attempt |-> f.attempt + 1,
                                              total |-> Len(f.backoffs) + 1,
                                              delay |-> f.backoffs[f.attempt + 1]]),
                      !.sleeps = Append(@, f.backoffs[f.attempt + 1])],
            f.attempt + 1)

\* WarnAndSleep reporting the 0-based loop index as the attempt number
WarnAndSleep_ZeroBased(f, kind) ==
    [f EXCEPT !.warnings = Append(@, [kind |-> kind,
                                      attempt |-> f.attempt,
                                      total |-> Len(f.backoffs) + 1,
                                      delay |-> f.backoffs[f.attempt + 1]]),
              !.sleeps = Append(@, f.backoffs[f.attempt + 1]),
              !.pc = "sleeping"]

\* logger.warning(...); await asyncio.sleep(backoffs[attempt])
WarnAndSleep(f, kind) ==
    [f EXCEPT !.warnings = Append(@, [kind |-> kind,
                                      attempt |-> f.attempt + 1,
                                      total |-> Len(f.backoffs) + 1,
                                      delay |-> f.backoffs[f.attempt + 1]]),
              !.sleeps = Append(@, f.backoffs[f.attempt + 1]),
              !.pc = "sleeping"]

\* ExceptException without the clause: the exception leaves as it is
ExceptException_Unwrapped(f, exc) ==
    Raise(f, [cls |-> exc, message |-> <<exc>>, status_code |-> None,
              error_type |-> None, is_connectivity_error |-> FALSE,
              response_data |-> None])

\* ExceptException treating the exception as the retry clause treats a
\* connection error
ExceptException_Retried(f, exc) ==
    IF f.attempt < Len(f.backoffs)
    THEN WarnAndSleep(f, "connection")
    ELSE Raise(f, FormBridgeError(<<"Unexpected error", exc>>, None, None, TRUE, None))

\* ExceptException without is_connectivity_error=True
ExceptException_NotConnectivity(f, exc) ==
    Raise(f, FormBridgeError(<<"Unexpected error", exc>>, None, None, FALSE, None))

\* except Exception as exc
ExceptException(f, exc) ==
    Raise(f, FormBridgeError(<<"Unexpected error", exc>>, None, None, TRUE, None))

\* except FormBridgeError: raise
ExceptFormBridgeError(f, err) == Raise(f, err)

\* Decode reporting the connection error of an earlier attempt, when there
\* was one, instead of the response in hand
Decode_LastExcWins(f, resp) ==
    IF f.last_exc # None
    THEN Raise(f, FormBridgeError(<<"Connection failed", f.last_exc[1]>>,
                                  None, None, TRUE, None))
    ELSE IF ~JsonDecodes(resp.body)
    THEN ExceptException(f, "JSONDecodeError")
    ELSE IF resp.status >= 400
    THEN IF ~ErrorInfo(resp.body).dict
         THEN ExceptException(f, "AttributeError")
         ELSE ExceptFormBridgeError(f,
                  FormBridgeError(ErrorMessage(resp), Some(resp.status),
                                  ErrorType(resp), FALSE, Some(resp.body)))
    ELSE Return(f, resp.body)

\* data = resp.json() and what follows it
Decode(f, resp) ==
    IF ~JsonDecodes(resp.body)
    THEN ExceptException(f, "JSONDecodeError")
    ELSE IF resp.status >= 400
    THEN IF ~ErrorInfo(resp.body).dict
         THEN ExceptException(f, "AttributeError")
         ELSE ExceptFormBridgeError(f,
                  FormBridgeError(ErrorMessage(resp), Some(resp.status),
                                  ErrorType(resp), FALSE, Some(resp.body)))
    ELSE Return(f, resp.body)

\* HandleResponse with `or` for `and` in the retry condition
HandleResponse_RetryOr(f, resp) ==
    IF resp.status \in RETRYABLE_STATUS \/ f.attempt < Len(f.backoffs)
    THEN IF f.attempt < Len(f.backoffs)
         THEN WarnAndSleep(f, "status")
         ELSE ExceptException(f, "IndexError")
    ELSE Decode([f EXCEPT !.decoded = @ + 1], resp)

\* the try body from the response on
HandleResponse(f, resp) ==
    IF resp.status \in RETRYABLE_STATUS /\ f.attempt < Len(f.backoffs)
    THEN WarnAndSleep(f, "status")
    ELSE Decode([f EXCEPT !.decoded = @ + 1], resp)

\* entry of _request: the locals are bound and the first iteration begins
Begin(f) ==
    Iterate([f EXCEPT !.last_exc = None,
                      !.seen = RETRY_BACKOFFS,
                      !.backoffs = PySlice(RETRY_BACKOFFS, max_retries)], 0)

\* ExceptTransport with `continue` where the last attempt should raise
ExceptTransport_NoFinalRaise(f, exc) ==
    LET g == [f EXCEPT !.last_exc = Some(exc)]
    IN  IF g.attempt < Len(g.backoffs)
        THEN WarnAndSleep(g, "connection")
        ELSE Iterate(g, g.attempt + 1)

\* except (httpx.ConnectError, httpx.TimeoutException, httpx.ConnectTimeout)
ExceptTransport(f, exc) ==
    LET g == [f EXCEPT !.last_exc = Some(exc)]
    IN  IF g.attempt < Len(g.backoffs)
        THEN WarnAndSleep(g, "connection")
        ELSE Raise(g, FormBridgeError(<<"Connection failed", exc>>,
                                      None, None, TRUE, None))

\* class of a completed attempt, for the history
ResponseClass(resp) ==
    IF resp.status \in RETRYABLE_STATUS THEN "retryable"
    ELSE IF resp.status >= 400 THEN "client_error"
    ELSE IF resp.status >= 200 /\ resp.status < 300 THEN "success"
    ELSE "other_status"

----------------------------------------------------------------------------
(* Actions *)

Init ==
    /\ max_retries \in (0 - NegRetries)..MaxRetries
    /\ RETRY_BACKOFFS = DEFAULT_RETRY_BACKOFFS
    /\ frame = [c \in {1} |-> IdleFrame]
    /\ client = NewClient(Some("test-key"), None)
    /\ server = "any"
    /\ adapter = IdleAdapter
    /\ create = IdleCreate

\* a test rebinds the module's list (mod._RETRY_BACKOFFS = [...])
OverrideBackoffs ==
    /\ \E l \in BackoffLists : l # RETRY_BACKOFFS /\ RETRY_BACKOFFS' = l
    /\ UNCHANGED <<max_retries, frame, client, server, adapter, create>>

\* a caller awaits _request: the locals are bound and the first attempt
\* is sent
Call(c) ==
    /\ frame[c].pc = "idle"
    /\ frame' = [frame EXCEPT ![c] = Begin(@)]
    /\ UNCHANGED <<max_retries, RETRY_BACKOFFS, client, server, adapter, create>>

\* the attempt in flight completes with a response
OnResponse(c) ==
    /\ frame[c].pc = "await_http"
    /\ client.http = "open"
    /\ \E resp \in Answers :
         frame' = [frame EXCEPT ![c] =
             HandleResponse([@ EXCEPT !.resp = Some(resp),
                                      !.last = Some([kind |-> "response", resp |-> resp]),
                                      !.history = Append(@, ResponseClass(resp))],
                            resp)]
    /\ UNCHANGED <<max_retries, RETRY_BACKOFFS, client, server, adapter, create>>

\* the attempt in flight fails with a connection error or a timeout
OnTransportError(c) ==
    /\ frame[c].pc = "await_http"
    /\ client.http = "open"
    /\ \E exc \in RetriedExceptions :
         frame' = [frame EXCEPT ![c] =
             ExceptTransport([@ EXCEPT !.last = Some([kind |-> "exception", exc |-> exc]),
                                       !.history = Append(@, "transport")], exc)]
    /\ UNCHANGED <<max_retries, RETRY_BACKOFFS, client, server, adapter, create>>

\* the attempt in flight fails with any other exception
OnOtherException(c) ==
    /\ frame[c].pc = "await_http"
    /\ \E exc \in OtherExceptions :
         /\ client.http = "closed" => exc = "ClientClosed"
         /\ frame' = [frame EXCEPT ![c] =
                ExceptException([@ EXCEPT !.last = Some([kind |-> "exception", exc |-> exc]),
                                          !.history = Append(@, "exception")], exc)]
    /\ UNCHANGED <<max_retries, RETRY_BACKOFFS, client, server, adapter, create>>

\* Wake with the attempts of one client serialised: no attempt starts
\* while another call has one in flight
Wake_Serialised(c) ==
    /\ frame[c].pc = "sleeping"
    /\ \A d \in DOMAIN frame : frame[d].pc # "await_http"
    /\ frame' = [frame EXCEPT ![c] = Iterate(@, @.attempt + 1)]
    /\ UNCHANGED <<max_retries, RETRY_BACKOFFS, client, server, adapter, create>>

\* Wake re-entering the iteration it came from: the loop index does not
\* advance
Wake_SameAttempt(c) ==
    /\ frame[c].pc = "sleeping"
    /\ frame' = [frame EXCEPT ![c] = Iterate(@, @.attempt)]
    /\ UNCHANGED <<max_retries, RETRY_BACKOFFS, client, server, adapter, create>>

\* the backoff sleep elapses: `continue` to the next iteration
Wake(c) ==
    /\ frame[c].pc = "sleeping"
    /\ frame' = [frame EXCEPT ![c] = Iterate(@, @.attempt + 1)]
    /\ UNCHANGED <<max_retries, RETRY_BACKOFFS, client, server, adapter, create>>

Next ==
    \/ OverrideBackoffs
    \/ \E c \in DOMAIN frame : Call(c)
    \/ \E c \in DOMAIN frame : OnResponse(c)
    \/ \E c \in DOMAIN frame : OnTransportError(c)
    \/ \E c \in DOMAIN frame : OnOtherException(c)
    \/ \E c \in DOMAIN frame : Wake(c)

Spec == Init /\ [][Next]_vars

----------------------------------------------------------------------------
(* The engine where every attempt in flight completes (with a response, a
   transport failure or the timeout of the session) and every backoff
   sleep elapses *)

FairInit ==
    /\ max_retries \in (0 - NegRetries)..MaxRetries
    /\ RETRY_BACKOFFS = DEFAULT_RETRY_BACKOFFS
    /\ frame = [c \in {1} |-> IdleFrame]
    /\ client = NewClient(Some("test-key"), None)
    /\ server = "few"
    /\ adapter = IdleAdapter
    /\ create = IdleCreate

\* await self._http.request(...) ends, one way or another
Complete(c) == OnResponse(c) \/ OnTransportError(c) \/ OnOtherException(c)

FairSpec ==
    /\ FairInit
    /\ [][Next]_vars
    /\ WF_vars(Complete(1))
    /\ WF_vars(Wake(1))

----------------------------------------------------------------------------
(* The credential: clients built from every api_key argument and value of
   FORMBRIDGE_API_KEY, running calls of the engine *)

AuthInit ==
    /\ max_retries = DefaultMaxRetries
    /\ RETRY_BACKOFFS = DEFAULT_RETRY_BACKOFFS
    /\ frame = [c \in {1} |-> IdleFrame]
    /\ \E a \in ApiKeyArgs, e \in EnvKeys : client = NewClient(a, e)
    /\ server = "few"
    /\ adapter = IdleAdapter
    /\ create = IdleCreate

AuthSpec == AuthInit /\ [][Next]_vars

----------------------------------------------------------------------------
(* The blocking client: calls through FormBridgeClientSync._run from both
   calling contexts, and close through both conventions *)

SyncInit ==
    /\ max_retries = DefaultMaxRetries
    /\ RETRY_BACKOFFS = DEFAULT_RETRY_BACKOFFS
    /\ frame = [c \in {1} |-> IdleFrame]
    /\ client = NewClient(Some("test-key"), None)
    /\ server = "few"
    /\ adapter = IdleAdapter
    /\ create = IdleCreate

\* a method of FormBridgeClientSync makes the coroutine and calls _run
SyncRun ==
    /\ adapter.pc \in {"idle", "returned"}
    /\ adapter.calls < MaxSyncCalls
    /\ \E ctx \in {"plain", "in_loop"}, op \in {"request", "close"} :
          /\ op = "close" => Len(client.closes) < MaxCloses
          /\ adapter' = Run(adapter, ctx, op)
          /\ frame' = IF op = "request" THEN [frame EXCEPT ![1] = IdleFrame]
                      ELSE frame
    /\ UNCHANGED <<max_retries, RETRY_BACKOFFS, client, server, create>>

\* asyncio.run starts the coroutine on its new loop: a request runs to its
\* first await, close() runs to its end
AsyncioRun ==
    /\ adapter.pc = "asyncio_run"
    /\ adapter' = NewLoop(adapter)
    /\ IF adapter.op = "request"
       THEN /\ frame' = [frame EXCEPT ![1] = Begin(@)]
            /\ UNCHANGED client
       ELSE /\ client' = Close(client, "sync")
            /\ UNCHANGED frame
    /\ UNCHANGED <<max_retries, RETRY_BACKOFFS, server, create>>

\* the coroutine has ended: asyncio.run closes its loop
LoopFinish ==
    /\ adapter.pc = "running"
    /\ adapter.op = "request" => frame[1].pc = "done"
    /\ adapter' = CloseLoop(adapter, IF adapter.op = "request" THEN frame[1].result
                                     ELSE CloseResult)
    /\ UNCHANGED <<max_retries, RETRY_BACKOFFS, frame, client, server, create>>

\* _run returns or raises what the coroutine ended with
SyncReturn ==
    /\ adapter.pc = "finished"
    /\ adapter' = Result(adapter)
    /\ UNCHANGED <<max_retries, RETRY_BACKOFFS, frame, client, server, create>>

\* await client.close(), or the end of `async with`, between blocking calls
AsyncClose ==
    /\ adapter.pc \in {"idle", "returned"}
    /\ Len(client.closes) < MaxCloses
    /\ client' = Close(client, "async")
    /\ UNCHANGED <<max_retries, RETRY_BACKOFFS, frame, server, adapter, create>>

SyncNext ==
    \/ SyncRun
    \/ AsyncioRun
    \/ OnResponse(1)
    \/ OnTransportError(1)
    \/ OnOtherException(1)
    \/ Wake(1)
    \/ LoopFinish
    \/ SyncReturn
    \/ AsyncClose

SyncSpec == SyncInit /\ [][SyncNext]_vars

----------------------------------------------------------------------------
(* Two calls of _request in flight on one client *)

ConcInit ==
    /\ max_retries \in 0..ConcRetries
    /\ RETRY_BACKOFFS = DEFAULT_RETRY_BACKOFFS
    /\ frame = [c \in {1, 2} |-> IdleFrame]
    /\ client = NewClient(Some("test-key"), None)
    /\ server = "few"
    /\ adapter = IdleAdapter
    /\ create = IdleCreate

ConcNext ==
    \/ \E c \in DOMAIN frame : Call(c)
    \/ \E c \in DOMAIN frame : OnResponse(c)
    \/ \E c \in DOMAIN frame : OnTransportError(c)
    \/ \E c \in DOMAIN frame : OnOtherException(c)
    \/ \E c \in DOMAIN frame : Wake(c)

ConcSpec == ConcInit /\ [][ConcNext]_vars

----------------------------------------------------------------------------
(* create_submission on the success bodies of the engine *)

CreateInit ==
    /\ max_retries = DefaultMaxRetries
    /\ RETRY_BACKOFFS = DEFAULT_RETRY_BACKOFFS
    /\ frame = [c \in {1} |-> IdleFrame]
    /\ client = NewClient(Some("test-key"), None)
    /\ server = "few"
    /\ adapter = IdleAdapter
    /\ \E i \in {"vendor", ""}, d \in CreateBodies :
          create = [pc |-> "called", intake_id |-> i, data |-> d]

\* data = await self._request(...) has returned data: the rest of
\* create_submission
CreateSubmission ==
    /\ create.pc = "called"
    /\ create' = [pc |-> "returned", intake_id |-> create.intake_id,
                  data |-> create.data,
                  sub |-> BackFill(FromResponse(create.data), create.intake_id)]
    /\ UNCHANGED <<max_retries, RETRY_BACKOFFS, frame, client, server, adapter>>

CreateNext == CreateSubmission

CreateSpec == CreateInit /\ [][CreateNext]_vars

----------------------------------------------------------------------------
(* Vocabulary of the properties *)

Calls == DOMAIN frame

Last(s) == s[Len(s)]

Done(f) == f.pc = "done"

Raised(f) == f.result.kind = "raise"

Returned(f) == f.result.kind = "return"

\* the attempt that ended the call received an HTTP response
EndedOnResponse(f) ==
    /\ Done(f)
    /\ f.history # <<>>
    /\ Last(f.history) \in {"retryable", "client_error", "success", "other_status"}

\* every attempt made so far had an outcome of class k
AllOf(f, k) == \A i \in 1..Len(f.history) : f.history[i] = k

\* s truncated to n entries
Truncated(s, n) == SubSeq(s, 1, Min(Max(n, 0), Len(s)))

----------------------------------------------------------------------------
(* C1 *)

\* C1: a call on a client with max_retries = R makes at most R + 1 HTTP
\* attempts, for every integer R the constructor accepts and every sequence
\* of attempt outcomes (stated of the calls that went on after their first
\* attempt, which every call makes).
C1_AtMostRPlusOneAttempts ==
    \A c \in Calls :
        frame[c].attempts >= 2 => frame[c].attempts <= max_retries + 1

----------------------------------------------------------------------------
(* C2 *)

\* C2: a call produces at most one terminal outcome, a return or a raise and
\* never both, and once it is produced nothing of that call happens any
\* more: no attempt, no sleep, no warning.
C2_OneTerminalOutcome ==
    /\ [](\A c \in Calls :
            /\ frame[c].terminals <= 1
            /\ (frame[c].terminals = 1) = (Returned(frame[c]) \/ Raised(frame[c]))
            /\ (frame[c].terminals = 1) = Done(frame[c]))
    /\ [][\A c \in Calls : frame[c].terminals >= 1 => frame'[c] = frame[c]]_vars

\* a call that retried, then failed, while the module's list was rebound
C2_Witness ==
    \E c \in Calls :
        /\ Raised(frame[c])
        /\ frame[c].attempts >= 2
        /\ Len(frame[c].sleeps) >= 1
        /\ RETRY_BACKOFFS # frame[c].seen

----------------------------------------------------------------------------
(* C3 *)

\* C3: with max_retries = R >= 0 and the default backoff list, a call whose
\* every attempt ends in a connection error or a timeout makes exactly R + 1
\* attempts and raises a FormBridgeError with is_connectivity_error true
\* and no status_code.
C3_PermanentFailure ==
    \A c \in Calls :
        LET f == frame[c] IN
        (/\ Done(f)
         /\ max_retries >= 0
         /\ f.seen = DEFAULT_RETRY_BACKOFFS
         /\ AllOf(f, "transport"))
        => /\ f.attempts = max_retries + 1
           /\ Raised(f)
           /\ f.result.exc.cls = "FormBridgeError"
           /\ f.result.exc.is_connectivity_error
           /\ f.result.exc.status_code = None

----------------------------------------------------------------------------
(* C4 *)

\* C4: with max_retries = R and the default backoff list, a call whose every
\* attempt receives a status of the retryable set makes exactly R + 1
\* attempts and raises an API error (is_connectivity_error false) whose
\* status_code is the status of the last response.
C4_RetryableExhausted ==
    \A c \in Calls :
        LET f == frame[c] IN
        (/\ Done(f)
         /\ f.seen = DEFAULT_RETRY_BACKOFFS
         /\ AllOf(f, "retryable"))
        => /\ f.attempts = max_retries + 1
           /\ Raised(f)
           /\ f.result.exc.cls = "FormBridgeError"
           /\ ~f.result.exc.is_connectivity_error
           /\ f.result.exc.status_code = Some(f.resp[1].status)

----------------------------------------------------------------------------
(* C5 *)

\* C5: a response with a status >= 400 outside the retryable set ends the
\* call at once, at any attempt index: no sleep and no attempt follow it,
\* and the call raises an API error carrying that status code.
C5_ClientErrorNotRetried ==
    \A c \in Calls :
        LET f == frame[c] IN
        (f.history # <<>> /\ Last(f.history) = "client_error")
        => /\ Done(f)
           /\ f.attempts = Len(f.history)
           /\ Len(f.sleeps) = f.attempts - 1
           /\ Raised(f)
           /\ f.result.exc.cls = "FormBridgeError"
           /\ ~f.result.exc.is_connectivity_error
           /\ f.result.exc.status_code = Some(f.resp[1].status)

----------------------------------------------------------------------------
(* C6 *)

\* C6 as stated: a response with a 2xx status at attempt index k ends the
\* call with the return of that response's decoded body.
C6_SuccessReturns ==
    \A c \in Calls :
        LET f == frame[c] IN
        (f.history # <<>> /\ Last(f.history) = "success")
        => Returned(f)

\* C6: a response with a 2xx status whose body decodes as JSON, at any
\* attempt index k, after any mix of k retried statuses and transport
\* failures, stops the loop: the call returns that decoded body, exactly
\* k + 1 attempts were made and k sleeps, none after the successful attempt.
C6_DecodableSuccessReturns ==
    \A c \in Calls :
        LET f == frame[c]
            k == Len(f.history) - 1
        IN  (/\ f.history # <<>>
             /\ Last(f.history) = "success"
             /\ JsonDecodes(f.resp[1].body))
            => /\ Done(f)
               /\ f.result = [kind |-> "return", data |-> f.resp[1].body]
               /\ f.attempts = k + 1
               /\ Len(f.sleeps) = k
               /\ Len(f.warnings) = k

\* max_retries = 3, responses 429, timeout, 200: success on the third attempt
C6_Witness ==
    \E c \in Calls :
        LET f == frame[c] IN
        /\ max_retries = 3
        /\ f.history = <<"retryable", "transport", "success">>
        /\ Returned(f)
        /\ f.attempts = 3
        /\ f.sleeps = <<500, 1000>>

----------------------------------------------------------------------------
(* C7 *)

\* C7: the backoff sequence of a call is the module's list as read when the
\* call starts, truncated to max_retries entries, and stays fixed; the
\* sleeps of the call are backoffs[0], backoffs[1], ... in order, one
\* before each retry and none after the attempt that ends the call.
C7_BackoffSequence ==
    \A c \in Calls :
        LET f == frame[c] IN
        f.pc # "idle"
        => /\ f.backoffs = Truncated(f.seen, max_retries)
           /\ f.sleeps = SubSeq(f.backoffs, 1, Len(f.sleeps))
           /\ Len(f.sleeps) = IF f.pc = "sleeping" THEN f.attempts
                              ELSE f.attempts - 1

----------------------------------------------------------------------------
(* C8 *)

\* C8: no call whose last attempt received an HTTP response, of any status
\* and body, ends with an error whose is_connectivity_error is true.
C8_ConnectivityOnlyWithoutResponse ==
    \A c \in Calls :
        LET f == frame[c] IN
        (EndedOnResponse(f) /\ Raised(f))
        => ~f.result.exc.is_connectivity_error

----------------------------------------------------------------------------
(* C9 *)

\* C9: the engine returns a decoded body as success only when the response
\* that ended the call has a 2xx status; a 1xx or 3xx status is an error.
C9_ReturnOnly2xx ==
    \A c \in Calls :
        LET f == frame[c] IN
        Returned(f) => (f.resp[1].status >= 200 /\ f.resp[1].status < 300)

----------------------------------------------------------------------------
(* C10 *)

\* C10: whatever the attempts of a call raise, the exception that leaves
\* _request is a FormBridgeError, never an exception of the transport
\* library and never a RuntimeError.
C10_UniformErrorType ==
    \A c \in Calls :
        Raised(frame[c]) => frame[c].result.exc.cls = "FormBridgeError"

\* a transport exception the retry clause does not name, wrapped
C10_Witness ==
    \E c \in Calls :
        LET f == frame[c] IN
        /\ Raised(f)
        /\ Last(f.history) = "exception"
        /\ f.result.exc.message = <<"Unexpected error", "ReadError">>
        /\ f.attempts >= 2

----------------------------------------------------------------------------
(* C16 *)

\* C16: the attempts of a call are strictly sequential: at most one is in
\* flight, and an attempt starts only when every earlier attempt has
\* completed and the sleep after it has elapsed; the frame is suspended
\* only awaiting the attempt in flight or sleeping a backoff.
C16_SequentialAttempts ==
    /\ [](\A c \in Calls :
            LET f == frame[c] IN
            /\ f.pc \in {"idle", "await_http", "sleeping", "done"}
            /\ f.attempts - Len(f.history) \in {0, 1}
            /\ (f.attempts - Len(f.history) = 1) = (f.pc = "await_http"))
    /\ [][\A c \in Calls :
            frame'[c].attempts # frame[c].attempts
            => /\ frame'[c].attempts = frame[c].attempts + 1
               /\ frame[c].pc \in {"idle", "sleeping"}
               /\ Len(frame[c].history) = frame[c].attempts
               /\ Len(frame[c].sleeps) = frame[c].attempts]_vars

\* the third attempt in flight, after two completed attempts and two sleeps
C16_Witness ==
    \E c \in Calls :
        LET f == frame[c] IN
        /\ f.pc = "await_http"
        /\ f.attempts = 3
        /\ Len(f.history) = 2
        /\ Len(f.sleeps) = 2

----------------------------------------------------------------------------
(* C18 *)

\* the call whose first and only attempt has outcome o, on a client that
\* never retries
SingleAttempt(o) ==
    LET f == [IdleFrame EXCEPT !.pc = "await_http", !.attempts = 1]
    IN  IF o.kind = "response" THEN HandleResponse(f, o.resp)
        ELSE IF o.exc \in RetriedExceptions THEN ExceptTransport(f, o.exc)
        ELSE ExceptException(f, o.exc)

\* C18: the terminal outcome of a call is decided by the outcome of its
\* last attempt alone: it is the outcome of a call whose only attempt ended
\* that way, whatever the retried attempts were; and no body of a retried
\* response is decoded (resp.json() runs once, on the response that ends
\* the call).
C18_RetriesInvisible ==
    \A c \in Calls :
        LET f == frame[c] IN
        /\ Done(f) => f.result = SingleAttempt(f.last[1]).result
        /\ f.decoded = IF EndedOnResponse(f) THEN 1 ELSE 0

\* two connection errors, then a 502 with an error envelope: an API error
C18_Witness ==
    \E c \in Calls :
        LET f == frame[c] IN
        /\ Done(f)
        /\ f.history = <<"transport", "transport", "retryable">>
        /\ f.last_exc # None
        /\ Raised(f)
        /\ f.result.exc.status_code = Some(502)
        /\ ~f.result.exc.is_connectivity_error

----------------------------------------------------------------------------
(* C19 *)

\* C19: for a response with status >= 400 that ends the call, whatever the
\* shape of its decoded JSON body, the API error carries status_code = the
\* status, error_type = body.error.type when there is one (else unset),
\* message = body.error.message when there is one, else "HTTP <status>",
\* and response_data = the decoded body.
C19_ApiErrorFields ==
    \A c \in Calls :
        LET f == frame[c]
            r == f.resp[1]
        IN  (EndedOnResponse(f) /\ r.status >= 400 /\ JsonDecodes(r.body))
            => /\ Raised(f)
               /\ f.result.exc.cls = "FormBridgeError"
               /\ f.result.exc.status_code = Some(r.status)
               /\ f.result.exc.error_type =
                     IF r.body = "ObjErrorFull" THEN Some("error.type") ELSE None
               /\ f.result.exc.message =
                     IF r.body = "ObjErrorFull" THEN <<"error.message">>
                     ELSE <<"HTTP", r.status>>
               /\ f.result.exc.response_data = Some(r.body)

----------------------------------------------------------------------------
(* C20 *)

\* C20: every retry logs exactly one warning and nothing else does: the
\* i-th warning of a call reports attempt number i, total attempts
\* len(backoffs) + 1 and the duration backoffs[i - 1] then slept, and a
\* finished call has logged attempts - 1 warnings, none for its last
\* attempt.
C20_OneWarningPerRetry ==
    \A c \in Calls :
        LET f == frame[c] IN
        /\ \A i \in 1..Len(f.warnings) :
              /\ f.warnings[i].attempt = i
              /\ f.warnings[i].total = Len(f.backoffs) + 1
              /\ f.warnings[i].delay = f.backoffs[i]
              /\ f.warnings[i].delay = f.sleeps[i]
        /\ Len(f.warnings) = Len(f.sleeps)
        /\ Len(f.warnings) = IF f.pc = "sleeping" THEN f.attempts
                             ELSE IF f.pc = "idle" THEN 0
                             ELSE f.attempts - 1

\* a call that failed on its fourth attempt, after three warnings
C20_Witness ==
    \E c \in Calls :
        LET f == frame[c] IN
        /\ Done(f)
        /\ f.attempts = 4
        /\ Len(f.warnings) = 3
        /\ f.warnings[3] = [kind |-> "status", attempt |-> 3, total |-> 4, delay |-> 2000]

----------------------------------------------------------------------------
(* C14 *)

\* C14: the Authorization header is sent iff a credential is configured:
\* when the api_key argument, else FORMBRIDGE_API_KEY, gives a non-empty
\* key, every request of every call, retries included, carries
\* "Authorization: Bearer <key>"; when it gives none, no request carries
\* an Authorization header.
C14_AuthorizationIffCredential ==
    \A c \in Calls :
        LET f == frame[c]
            arg == client.api_key_arg
            env == client.env_key
            key == IF arg # None /\ arg[1] # "" THEN arg[1]
                   ELSE IF env # None THEN env[1] ELSE ""
        IN  /\ Len(f.sent) = f.attempts
            /\ \A i \in 1..Len(f.sent) :
                  f.sent[i] = IF key # "" THEN Some(<<"Bearer", key>>) ELSE None

\* an empty api_key argument, the key of the environment, sent on a retry
C14_Witness ==
    \E c \in Calls :
        LET f == frame[c] IN
        /\ client.api_key_arg = Some("")
        /\ f.attempts >= 2
        /\ f.sent[2] = Some(<<"Bearer", "env-key">>)

----------------------------------------------------------------------------
(* C15 *)

\* C15: create_submission back-fills the intake identifier: when the
\* success body omits intakeId or carries an empty one, the Submission
\* returned has the caller's intake_id and every other field as the
\* response parsed; when the body carries a non-empty intakeId, the
\* Submission returned is the parsed one, with the server's intakeId.
C15_IntakeIdBackFilled ==
    create.pc = "returned"
    => LET parsed == FromResponse(create.data)
           omitted == create.data.intakeId \in {None, Some("")}
       IN  /\ omitted => create.sub = [parsed EXCEPT !.intake_id = create.intake_id]
           /\ ~omitted => /\ create.sub = parsed
                          /\ create.sub.intake_id = create.data.intakeId[1]

\* the body of test_create_submission_success: no intakeId, the rest kept
C15_Witness ==
    /\ create.pc = "returned"
    /\ create.data.intakeId = None
    /\ create.intake_id = "vendor"
    /\ create.sub.intake_id = "vendor"
    /\ create.sub.submission_id = "sub_123"
    /\ create.sub.resume_token = Some("tok_abc")
    /\ create.sub.missing_fields = Some("[email]")

----------------------------------------------------------------------------
(* C11 *)

\* C11: the blocking adapter, called with no running event loop or from
\* inside a running one, returns exactly what the asynchronous operation
\* returned or raises exactly what it raised; that outcome is set by the
\* server's behaviour alone, so the two calling contexts give the same
\* result for the same call.
C11_AdapterTransparent ==
    adapter.pc = "returned"
    => /\ adapter.ctx \in {"plain", "in_loop"}
       /\ adapter.op = "close" => adapter.outcome = CloseResult
       /\ adapter.op = "request"
          => /\ Done(frame[1])
             /\ adapter.outcome = frame[1].result
             /\ adapter.outcome = SingleAttempt(frame[1].last[1]).result

\* a call from inside a running loop that raised after a retry
C11_Witness ==
    /\ adapter.pc = "returned"
    /\ adapter.ctx = "in_loop"
    /\ adapter.op = "request"
    /\ frame[1].attempts >= 2
    /\ adapter.outcome.kind = "raise"
    /\ adapter.outcome = frame[1].result

----------------------------------------------------------------------------
(* C12 *)

\* C12: once a call of the blocking adapter has returned or raised, the
\* event loop made for it is closed and the worker thread made for it has
\* been joined; a call from inside a running loop starts one worker
\* thread and a call with no running loop starts none; the caller's own
\* loop is left running throughout.
C12_NothingLeftRunning ==
    /\ adapter.spawned <= 1
    /\ adapter.ctx = "plain" => adapter.spawned = 0 /\ adapter.worker = "none"
                                /\ adapter.caller_loop = "none"
    /\ adapter.ctx = "in_loop" => adapter.caller_loop = "running"
    /\ adapter.pc = "returned"
       => /\ adapter.loop = "closed"
          /\ adapter.worker # "alive"
          /\ adapter.ctx = "in_loop" => adapter.spawned = 1 /\ adapter.worker = "joined"

\* a call from inside a running loop has returned: its worker is joined,
\* its loop closed, the caller's loop running
C12_Witness ==
    /\ adapter.pc = "returned"
    /\ adapter.ctx = "in_loop"
    /\ adapter.spawned = 1
    /\ adapter.worker = "joined"
    /\ adapter.loop = "closed"
    /\ adapter.caller_loop = "running"
    /\ adapter.calls >= 2

----------------------------------------------------------------------------
(* C13 *)

----------------------------------------------------------------------------
(* C17 *)

\* the frames one step of a call running alone leads to from f
AloneSteps(f) ==
    CASE f.pc = "idle" -> {Begin(f)}
      [] f.pc = "sleeping" -> {Iterate(f, f.attempt + 1)}
      [] f.pc = "await_http" ->
            {HandleResponse([f EXCEPT !.resp = Some(resp),
                                      !.last = Some([kind |-> "response", resp |-> resp]),
                                      !.history = Append(@, ResponseClass(resp))], resp) :
                resp \in Answers}
            \cup {ExceptTransport([f EXCEPT !.last = Some([kind |-> "exception", exc |-> exc]),
                                            !.history = Append(@, "transport")], exc) :
                    exc \in RetriedExceptions}
            \cup {ExceptException([f EXCEPT !.last = Some([kind |-> "exception", exc |-> exc]),
                                            !.history = Append(@, "exception")], exc) :
                    exc \in OtherExceptions}
      [] OTHER -> {}

\* C17: calls issued concurrently on one client are independent: under
\* every interleaving a step of one call is a step that call could take
\* alone and changes no other call, so that each call's attempt count,
\* backoff sequence and terminal outcome are those of a call alone with
\* the same per-attempt outcomes; and a call that sleeps in a backoff or
\* awaits a response never keeps another call from starting an attempt or
\* from finishing one.
C17_CallsIndependent ==
    /\ [][\A c \in Calls :
            frame'[c] # frame[c]
            => /\ frame'[c] \in AloneSteps(frame[c])
               /\ \A d \in Calls \ {c} : frame'[d] = frame[d]]_vars
    /\ [](\A c \in Calls : LET f == frame[c] IN
            /\ f.pc # "idle" => f.attempts = Len(f.sleeps) + (IF f.pc = "sleeping" THEN 0 ELSE 1)
            /\ f.sleeps = SubSeq(f.backoffs, 1, Len(f.sleeps))
            /\ Done(f) => f.result = SingleAttempt(f.last[1]).result)
    /\ [](\A c \in Calls : \A d \in Calls \ {c} :
            frame[c].pc \in {"await_http", "sleeping"}
            => /\ frame[d].pc = "idle" => ENABLED Call(d)
               /\ frame[d].pc = "sleeping" => ENABLED Wake(d)
               /\ frame[d].pc = "await_http"
                  => ENABLED OnResponse(d) /\ ENABLED OnTransportError(d))

\* call 2 went through a retry and ended while call 1 was still sleeping
C17_Witness ==
    /\ frame[1].pc = "sleeping"
    /\ frame[1].attempts = 1
    /\ Done(frame[2])
    /\ frame[2].attempts = 2
    /\ Len(frame[2].sleeps) = 1
    /\ Returned(frame[2])

----------------------------------------------------------------------------
(* C21 *)

\* C21: the fallback after the retry loop is unreachable: for every
\* max_retries, every backoff list and every sequence of attempt outcomes,
\* the loop index never passes the last index of the loop and the call
\* ends by a return or raise inside the loop; neither "Connection failed
\* after retries" nor RuntimeError("Retry loop exhausted unexpectedly") is
\* ever raised.
C21_FallbackUnreachable ==
    \A c \in Calls :
        LET f == frame[c] IN
        /\ f.attempt <= Len(f.backoffs)
        /\ Raised(f) => /\ f.result.exc.cls # "RuntimeError"
                        /\ f.result.exc.message[1] # "Connection failed after retries"
                        /\ f.result.exc.message[1] # "Retry loop exhausted unexpectedly"

\* a negative max_retries and a connection error on every attempt: the
\* call ends inside the loop, on its last index
C21_Witness ==
    \E c \in Calls :
        LET f == frame[c] IN
        /\ max_retries < 0
        /\ Raised(f)
        /\ f.attempt = Len(f.backoffs)
        /\ f.attempts >= 2
        /\ AllOf(f, "transport")
        /\ f.result.exc.message[1] = "Connection failed"

----------------------------------------------------------------------------
(* C23 *)

\* the latest attempt raised an exception which is neither a connection
\* error nor a timeout: in the request, in resp.json(), or in reading the
\* error envelope
Unexpected(f) ==
    /\ f.last # None
    /\ \/ f.last[1].kind = "exception" /\ f.last[1].exc \in OtherExceptions
       \/ /\ f.last[1].kind = "response"
          /\ f.decoded > 0
          /\ \/ ~JsonDecodes(f.last[1].resp.body)
             \/ /\ f.last[1].resp.status >= 400
                /\ ~ErrorInfo(f.last[1].resp.body).dict

\* C23: an attempt that fails with an exception that is neither a
\* connection error nor a timeout (a body that is not JSON, a request on
\* a closed client) is never retried: at any attempt index the call ends
\* on that attempt, with no backoff sleep, no warning and no further
\* request, raising a FormBridgeError whose message starts with
\* "Unexpected error".
C23_UnexpectedNotRetried ==
    /\ [](\A c \in Calls :
            LET f == frame[c] IN
            Unexpected(f)
            => /\ Done(f) /\ Raised(f)
               /\ f.result.exc.cls = "FormBridgeError"
               /\ f.result.exc.message[1] = "Unexpected error"
               /\ f.attempts = Len(f.history)
               /\ Len(f.sleeps) = f.attempts - 1
               /\ Len(f.warnings) = f.attempts - 1)
    /\ [][\A c \in Calls :
            ~Unexpected(frame[c]) /\ Unexpected(frame'[c])
            => /\ frame'[c].pc = "done"
               /\ frame'[c].attempts = frame[c].attempts
               /\ frame'[c].sleeps = frame[c].sleeps
               /\ frame'[c].warnings = frame[c].warnings]_vars

\* a retried attempt, then a 200 whose body is not JSON: the call ends on
\* the second attempt
C23_Witness ==
    \E c \in Calls :
        LET f == frame[c] IN
        /\ Done(f)
        /\ f.attempts = 2
        /\ f.attempt < Len(f.backoffs)
        /\ f.last = Some([kind |-> "response", resp |-> [status |-> 200, body |-> "NotJson"]])
        /\ f.result.exc.message = <<"Unexpected error", "JSONDecodeError">>
        /\ Len(f.sleeps) = 1

----------------------------------------------------------------------------
(* C24 *)

\* C24: on every FormBridgeError the engine raises, status_code is set,
\* and then at least 400, exactly when is_connectivity_error is false,
\* and unset exactly when it is true.
C24_StatusXorConnectivity ==
    \A c \in Calls :
        LET f == frame[c] IN
        Raised(f) /\ f.result.exc.cls = "FormBridgeError"
        => LET e == f.result.exc IN
           /\ (e.status_code # None) = (~e.is_connectivity_error)
           /\ e.status_code # None => e.status_code[1] >= 400

\* an error raised while a 401 was being handled: no status code, and the
\* flag set
C24_Witness ==
    \E c \in Calls :
        LET f == frame[c] IN
        /\ Raised(f)
        /\ f.last[1].kind = "response"
        /\ f.last[1].resp.status = 401
        /\ f.result.exc.status_code = None
        /\ f.result.exc.is_connectivity_error

----------------------------------------------------------------------------
(* C22 *)

\* the awaits a started call has before it at most: two for every loop
\* index still to come, and those of the iteration it is in
Remaining(f) ==
    IF f.pc = "done" THEN 0
    ELSE 2 * (Len(f.backoffs) - f.attempt) + (IF f.pc = "sleeping" THEN 1 ELSE 2)

\* C22: every call terminates: when each attempt in flight completes and
\* each backoff sleep elapses, a call that has started reaches a return
\* or a raise; it cannot retry forever, since every step of a started
\* call takes it strictly closer to the end of its loop.
C22_EveryCallTerminates ==
    /\ (frame[1].pc \in {"await_http", "sleeping"}) ~> Done(frame[1])
    /\ [][\A c \in Calls :
            frame[c].pc # "idle" /\ frame'[c] # frame[c]
            => Remaining(frame'[c]) < Remaining(frame[c])]_vars
    /\ [](\A c \in Calls :
            frame[c].pc # "idle"
            => /\ Remaining(frame[c]) >= 0
               /\ Remaining(frame[c]) <= 2 * Len(frame[c].backoffs) + 2)

\* a call that was retried as often as its backoffs allow, and has ended
C22_Witness ==
    \E c \in Calls :
        LET f == frame[c] IN
        /\ Done(f)
        /\ Len(f.backoffs) = 3
        /\ f.attempts = 4
        /\ Len(f.sleeps) = 3

====
